---- MODULE Spec2Model ----
(***************************************************************************)
(* Model of uw-openhsi/ids/record_frames.py: the IDSCam reconnect monitor  *)
(* and acquisition loop.  Two threads are modelled: "main", which runs     *)
(* the script entry point (IDSCam() followed by run()), and "cb", the      *)
(* vendor notification thread that delivers device_reconnected.  Each     *)
(* step is one call into the camera SDK (or one statement that touches    *)
(* state shared by the two threads); purely local tests are merged into   *)
(* the call that precedes them.  Labels are the source line numbers.      *)
(*                                                                         *)
(* The other programs of the repository are separate processes with their *)
(* own variables and their own specifications: the orchestrator main.py   *)
(* (SpecOrchestrator) and the two stereo-camera scripts zed/record_svo.py *)
(* and zed/position_post.py (SpecZed).                                    *)
(***************************************************************************)
EXTENDS Integers, Sequences, FiniteSets, TLC

\* ------------------------------------------------------------- bounds
MaxPayload == 2          \* PayloadSize ranges over 1..MaxPayload
MinRequiredBuffers == 2  \* value of DataStream.NumBuffersAnnouncedMinRequired()
MaxReconnects == 1       \* reconnect events delivered in one run
MaxDevices == 2          \* length of DeviceManager.Devices()

PayloadSizes == 1..MaxPayload
Threads == {"main", "cb"}
CallbackKinds == {"found", "lost", "reconnected", "disconnected"}
ExceptionKinds == {"AbortedException", "Exception", "KeyboardInterrupt"}
NoBuffer == 0

VARIABLES
  \* --- threads
  pc,                  \* pc[t]: position of thread t (source line labels)
  payload_size,        \* payload_size[t]: local of alloc_buffers (line 269)
  buffer_count,        \* buffer_count[t]: buffers still to allocate (line 275)
  buffer,              \* buffer[t]: local `buffer` (lines 191, 277)
  revoke_list,         \* revoke_list[t]: AnnouncedBuffers() being iterated (line 285)
  exc,                 \* exc[t]: exception in flight or being handled in t, or "none"
  dev_i,               \* position of the loop of line 214 in Devices()
  local_device,        \* local `device` of open_device (line 213), 0 for None
  \* --- locals of the reconnect callback
  info,                \* DeviceReconnectInformation passed to device_reconnected
  cb_payload_size,     \* payload_size of line 73
  has_payload_size_mismatch,
  is_data_stream_running,
  \* --- IDSCam object
  acquisition_running, \* self.acquisition_running
  device,              \* self.device: index into devices, 0 for None
  remote_nodemap,      \* self.remote_nodemap is set
  data_stream,         \* self.data_stream is set
  \* --- SDK: data stream
  announced,           \* AnnouncedBuffers(): sequence of [id, size]
  queued,              \* input pool: ids of queued buffers, in queueing order
  finished,            \* output queue: ids of filled buffers
  grabbing,            \* IsGrabbing()
  nextId,              \* identity of the next buffer the transport layer allocates
  \* --- SDK: remote device
  PayloadSize,         \* node PayloadSize
  TLParamsLocked,      \* node TLParamsLocked
  remoteAcq,           \* remote device acquisition running
  \* --- SDK: system, device manager, library
  reconnectNode,       \* node ReconnectEnable of the system node map
  devices,             \* DeviceManager.Devices(): openable flags
  opened,              \* indices of devices opened by this process
  registered,          \* callbacks registered with the device manager
  libInit, libClose,   \* number of Library.Initialize() / Library.Close() calls
  retval,              \* how run() ended
  \* --- observation of one callback invocation
  reconnects,          \* reconnect events delivered so far
  entry,               \* state observed when device_reconnected was called
  cbLog                \* SDK calls issued by the callback, in order

VARIABLES
  \* --- main.py
  orch_pc,             \* position of the orchestrator (source line labels)
  config_file,         \* configs/cam_settings_ids.json: its key/value pairs in order
  data,                \* the dict `data` of line 55, in insertion order
  fps_hsi,             \* line 50
  row_start,           \* line 62
  row_width,           \* line 63
  process_dict,        \* line 151
  launched,            \* child steps launched so far, in order
  reported,            \* what the orchestrator printed for each child step
  orch_exc             \* the exception that ended the orchestrator, or "none"

VARIABLES
  \* --- zed/record_svo.py
  svo_pc,              \* position of record_svo.py
  output_svo_file,     \* extension of opt.output_svo_file
  time_left,           \* grabs the deadline opt.time_stop_zed still admits
  frames_recorded,     \* line 67
  svo_failed,          \* record_svo.py took a failure path
  svo_exit,            \* exit code of record_svo.py, <<>> while it runs
  \* --- zed/position_post.py
  pose_pc,             \* position of position_post.py
  input_svo_file,      \* extension of opt.input_svo_file, "" when empty
  ip_address,          \* opt.ip_address is given
  nb_frames,           \* line 110
  pose_i,              \* the counter i of line 100
  grabs_ok,            \* grab calls that returned SUCCESS
  grabs_failed,        \* grab calls that returned anything else (counted up to MaxFailedGrabs)
  df,                  \* the DataFrame: one element per row
  pose_csv,            \* opt.output_pose_file: <<>> until written, then <<rows>>
  pose_failed,         \* position_post.py took a failure path
  pose_exit            \* exit code of position_post.py, <<>> while it runs

threadVars == <<pc, payload_size, buffer_count, buffer, revoke_list, exc,
               dev_i, local_device>>
cbVars     == <<info, cb_payload_size, has_payload_size_mismatch, is_data_stream_running>>
objVars    == <<acquisition_running, device, remote_nodemap, data_stream>>
streamVars == <<announced, queued, finished, grabbing, nextId>>
remoteVars == <<PayloadSize, TLParamsLocked, remoteAcq>>
sysVars    == <<reconnectNode, devices, opened, registered, libInit, libClose, retval>>
obsVars    == <<reconnects, entry, cbLog>>
idsVars    == <<threadVars, cbVars, objVars, streamVars, remoteVars, sysVars, obsVars>>
orchVars   == <<orch_pc, config_file, data, fps_hsi, row_start, row_width,
               process_dict, launched, reported, orch_exc>>
svoVars    == <<svo_pc, output_svo_file, time_left, frames_recorded,
               svo_failed, svo_exit>>
poseVars   == <<pose_pc, input_svo_file, ip_address, nb_frames, pose_i,
               grabs_ok, grabs_failed, df, pose_csv, pose_failed, pose_exit>>
hostVars   == <<orchVars, svoVars, poseVars>>
vars == <<idsVars, hostVars>>

\* ------------------------------------------------------------- helpers
Range(s) == {s[i] : i \in 1..Len(s)}
Ids(s) == {s[i].id : i \in 1..Len(s)}
Sizes(s) == {s[i].size : i \in 1..Len(s)}
IdSeq(s) == [i \in 1..Len(s) |-> s[i].id]
RECURSIVE Without(_, _)
Without(s, id) ==
  IF s = <<>> THEN <<>>
  ELSE IF Head(s).id = id THEN Without(Tail(s), id)
       ELSE <<Head(s)>> \o Without(Tail(s), id)
RECURSIVE Count(_, _)
Count(s, x) ==
  IF s = <<>> THEN 0
  ELSE (IF Head(s) = x THEN 1 ELSE 0) + Count(Tail(s), x)

NoEntry == [called |-> FALSE]
NoInfo == [successful |-> TRUE, remoteRunning |-> TRUE, restored |-> TRUE]
Infos == [successful : BOOLEAN, remoteRunning : BOOLEAN, restored : BOOLEAN]

RECURSIVE Remove(_, _)
Remove(s, x) ==
  IF s = <<>> THEN <<>>
  ELSE IF Head(s) = x THEN Remove(Tail(s), x)
       ELSE <<Head(s)>> \o Remove(Tail(s), x)

Log(t, call) == cbLog' = IF t = "cb" THEN Append(cbLog, call) ELSE cbLog

\* ------------------------------------------------------------- main.py: data
MaxReturnCode == 1       \* a child process returns a code in 0..MaxReturnCode
MaxGrabs == 2            \* loop iterations the deadline of record_svo.py admits
MaxFrames == 2           \* frames of the recording position_post.py reads
MaxFailedGrabs == 1      \* failed grab calls of position_post.py that are counted

ReturnCodes == 0..MaxReturnCode

\* The keys of process_dict (lines 151-156).
Products == {"record", "record_svo", "record_hsi", "pose_post", "export", "mesh_post"}

\* JSON values as Python holds them: a str, an int, a float (the quotient
\* num[1]/num[2]) or a list of ints.
PyStr(x) == [tag |-> "str", str |-> x, num |-> <<>>]
PyInt(n) == [tag |-> "int", str |-> "", num |-> <<n>>]
PyFloat(n, d) == [tag |-> "float", str |-> "", num |-> <<n, d>>]
PyList(l) == [tag |-> "list", str |-> "", num |-> l]

\* A Python dict: a sequence of [key, value] with no key twice, in insertion
\* order.
Keys(d) == {d[j].key : j \in 1..Len(d)}
DictHas(d, k) == k \in Keys(d)
DictGet(d, k) == d[CHOOSE j \in 1..Len(d) : d[j].key = k].value

\* d[k] = v: an existing key keeps its place, a new key goes to the end.
DictSet(d, k, v) ==
  IF DictHas(d, k)
    THEN [j \in 1..Len(d) |-> IF d[j].key = k THEN [key |-> k, value |-> v] ELSE d[j]]
    ELSE Append(d, [key |-> k, value |-> v])

\* The file is the sequence of its "key": value members, in the order written.
\* json.load (line 55) builds the dict member by member: of a key that comes
\* twice the last value stays.
RECURSIVE LoadMembers(_, _)
LoadMembers(f, d) ==
  IF f = <<>> THEN d
  ELSE LoadMembers(Tail(f), DictSet(d, Head(f)[1], Head(f)[2]))

json_load(f) == LoadMembers(f, <<>>)

\* Mutant: only the five patched keys are written.
json_dump_patchedOnly(d) ==
  SelectSeq([j \in 1..Len(d) |-> <<d[j].key, d[j].value>>],
            LAMBDA m : m[1] \in {"pixel_format", "exposure_ms", "win_offset",
                                 "win_resolution", "resolution"})

\* json.dump (line 75): one member per item of the dict, in the dict's order.
json_dump(d) == [j \in 1..Len(d) |-> <<d[j].key, d[j].value>>]

\* The members a configuration file may hold before the run: camera settings,
\* among them keys the orchestrator does not touch, `resolution` possibly
\* missing, and a second `resolution` member that is an empty list.
BaseMembers ==
  << <<"resolution", PyList(<<1216, 1936>>)>>,
     <<"pixel_format", PyStr("Mono12")>>,
     <<"exposure_ms", PyInt(10)>>,
     <<"binxy", PyList(<<1, 1>>)>>,
     <<"resolution", PyList(<<>>)>> >>

\* The members of base at the positions S, in order.
Select(base, S) ==
  LET F[j \in 0..Len(base)] ==
        IF j = 0 THEN <<>>
        ELSE IF j \in S THEN Append(F[j - 1], base[j]) ELSE F[j - 1]
  IN F[Len(base)]

ConfigFiles == {Select(BaseMembers, S) : S \in SUBSET (1..Len(BaseMembers))}

\* Lines 50, 58: fps_hsi, and the frame rate the comment of line 58 names.
FpsValues == {135, 160}

\* Lines 62-63 and the alternative of lines 65-66: <<row_start, row_width>>.
Windows == {<<333, 550>>, <<0, 1216>>}

\* main.py at line 54, with any configuration file and any table of products.
OrchStartup ==
  /\ orch_pc = "o54"
  /\ config_file \in ConfigFiles
  /\ data = <<>>
  /\ fps_hsi \in FpsValues
  /\ \E w \in Windows : row_start = w[1] /\ row_width = w[2]
  /\ process_dict \in [Products -> BOOLEAN]
  /\ launched = <<>>
  /\ reported = <<>>
  /\ orch_exc = "none"

\* main.py is not run.
OrchOff ==
  /\ orch_pc = "off"
  /\ config_file = <<>>
  /\ data = <<>>
  /\ fps_hsi = 135
  /\ row_start = 333
  /\ row_width = 550
  /\ process_dict = [p \in Products |-> FALSE]
  /\ launched = <<>>
  /\ reported = <<>>
  /\ orch_exc = "none"

\* ------------------------------------------------------------- zed: data
\* File name extensions the scripts are given.
Extensions == {".svo", ".svo2", ".avi"}

\* Lines 81 (record_svo.py) and 38 (position_post.py): the name ends in .svo
\* or .svo2.
IsSvoName(x) == x \in {".svo", ".svo2"}

\* What sl.Camera calls return.
ErrorCodes == {"SUCCESS", "FAILURE"}

\* The exit code of exit(arg): 0 for no argument (None), else the argument.
PyExit(arg) == IF arg = <<>> THEN 0 ELSE arg[1]

\* record_svo.py at line 81 with any output file name and any deadline.
SvoStartup ==
  /\ svo_pc = "s81"
  /\ output_svo_file \in Extensions
  /\ time_left \in 0..MaxGrabs
  /\ frames_recorded = 0
  /\ svo_failed = FALSE
  /\ svo_exit = <<>>

\* record_svo.py is not run.
SvoOff ==
  /\ svo_pc = "off"
  /\ output_svo_file = ".svo2"
  /\ time_left = 0
  /\ frames_recorded = 0
  /\ svo_failed = FALSE
  /\ svo_exit = <<>>

\* position_post.py at line 190 with any input: an .svo/.svo2 recording, a
\* file of another kind or no file, with or without --ip_address.
PoseStartup ==
  /\ pose_pc = "p190"
  /\ input_svo_file \in Extensions \cup {""}
  /\ ip_address \in BOOLEAN
  /\ nb_frames = 0
  /\ pose_i = 0
  /\ grabs_ok = 0
  /\ grabs_failed = 0
  /\ df = <<>>
  /\ pose_csv = <<>>
  /\ pose_failed = FALSE
  /\ pose_exit = <<>>

\* position_post.py is not run.
PoseOff ==
  /\ pose_pc = "off"
  /\ input_svo_file = ".svo2"
  /\ ip_address = FALSE
  /\ nb_frames = 0
  /\ pose_i = 0
  /\ grabs_ok = 0
  /\ grabs_failed = 0
  /\ df = <<>>
  /\ pose_csv = <<>>
  /\ pose_failed = FALSE
  /\ pose_exit = <<>>

\* None of the other processes is part of the run.
HostOff == OrchOff /\ SvoOff /\ PoseOff

\* ------------------------------------------------------------- initial state
\* The environments: what DeviceManager.Devices() lists (each device openable
\* or not) and the ReconnectEnable node of the system node map.
DeviceLists == UNION {[1..n -> BOOLEAN] : n \in 0..MaxDevices}
ReconnectNodes == [has : BOOLEAN, access : {"RW", "RO", "NA"}, value : BOOLEAN]

\* record_frames.py at line 339, before IDSCam() is constructed, in an
\* environment with one of the device lists devs and one of the
\* ReconnectEnable nodes nodes; the device's payload size is any value.
IdsStartup(devs, nodes) ==
  /\ pc = [t \in Threads |-> IF t = "main" THEN "m340" ELSE "idle"]
  /\ payload_size = [t \in Threads |-> 0]
  /\ buffer_count = [t \in Threads |-> 0]
  /\ buffer = [t \in Threads |-> NoBuffer]
  /\ revoke_list = [t \in Threads |-> <<>>]
  /\ exc = [t \in Threads |-> "none"]
  /\ dev_i = 1
  /\ local_device = 0
  /\ info = NoInfo
  /\ cb_payload_size = 0
  /\ has_payload_size_mismatch = FALSE
  /\ is_data_stream_running = FALSE
  /\ acquisition_running = FALSE
  /\ device = 0
  /\ remote_nodemap = FALSE
  /\ data_stream = FALSE
  /\ announced = <<>>
  /\ queued = <<>>
  /\ finished = <<>>
  /\ grabbing = FALSE
  /\ nextId = 1
  /\ PayloadSize \in PayloadSizes
  /\ TLParamsLocked = 0
  /\ remoteAcq = FALSE
  /\ reconnectNode \in nodes
  /\ devices \in devs
  /\ opened = {}
  /\ registered = {}
  /\ libInit = 0
  /\ libClose = 0
  /\ retval = "running"
  /\ reconnects = 0
  /\ entry = NoEntry
  /\ cbLog = <<>>

\* record_frames.py is not run.
IdsOff ==
  /\ IdsStartup({<<>>}, {[has |-> FALSE, access |-> "NA", value |-> FALSE]})
  /\ PayloadSize = 1

\* record_frames.py run by itself.
Startup(devs, nodes) == IdsStartup(devs, nodes) /\ HostOff

\* Every environment.
Init == Startup(DeviceLists, ReconnectNodes)

\* The environments in which run() gets to the acquisition loop with one
\* device: one openable device, a writable ReconnectEnable node.
InitOneDevice ==
  Startup({<<TRUE>>}, {n \in ReconnectNodes : n.has /\ n.access = "RW"})

\* ------------------------------------------------------------- control flow
\* The try block of the acquisition loop (lines 189-195).
LoopTryPcs == {"m191", "m195"}

\* Lines 196-200: the handlers of the acquisition loop.  A KeyboardInterrupt
\* prints and breaks (line 198); any other exception is printed (line 200) and
\* the loop goes on.
LoopHandler(kind) == IF kind = "KeyboardInterrupt" THEN "m197" ELSE "m200"

\* Where an exception raised by the main thread at label l is handled: in the
\* loop's own handlers inside its try block, else in the handlers of run()
\* (lines 328-336).
HandlerOf(l, kind) == IF l \in LoopTryPcs THEN LoopHandler(kind) ELSE "m328"

\* An exception raised in the callback leaves device_reconnected.
Throw(t, kind) ==
  /\ pc' = [pc EXCEPT ![t] = IF t = "cb" THEN "craised" ELSE HandlerOf(pc[t], kind)]
  /\ exc' = [exc EXCEPT ![t] = kind]

Step(t, l) == pc' = [pc EXCEPT ![t] = l] /\ UNCHANGED exc

\* Mutant: the early return of line 116-118 is missing.
ReconnectNothingToDo_never(i) == FALSE

\* Line 116: a successful reconnect needs no action.
ReconnectNothingToDo(i) == i.successful

\* Lines 75-76: payload size against the size of the first announced buffer.
PayloadSizeMismatch(p, pool) == p # pool[1].size

\* Mutant: AcquisitionStart is executed whatever the information says.
RemoteStartNeeded_always(i) == TRUE

\* Line 94: the remote acquisition has to be started again.
RemoteStartNeeded(i) == ~i.remoteRunning

\* Line 94-95 as the next position of the callback.
AfterRestart == IF RemoteStartNeeded(info) THEN "c95" ELSE "creturn"

\* Mutant: the stream is not restarted after the reallocation.
RestartStream_never == FALSE

\* Line 91: the stream is restarted if it had been grabbing.
RestartStream == is_data_stream_running

\* Where alloc_buffers returns to: line 179 via run() (the call of line 320 is
\* followed by run_acquisition_loop), line 91 in the recovery.
AfterAlloc(t) ==
  IF t = "main" THEN "m179"
  ELSE IF RestartStream THEN "c92" ELSE AfterRestart

\* Mutant: the recovery restarts the stream before it reallocates.
AfterRevoke_restartFirst(t) == IF t = "main" THEN "m335" ELSE "c92"

\* Where revoke_buffers returns to: the finally block of run() after line 326,
\* line 89 (alloc_buffers) in the recovery.
AfterRevoke(t) == IF t = "main" THEN "m335" ELSE "a269"

\* ------------------------------------------------------------- alloc_buffers
\* Line 269: read PayloadSize.
alloc_269(t) ==
  /\ pc[t] = "a269"
  /\ payload_size' = [payload_size EXCEPT ![t] = PayloadSize]
  /\ Log(t, "PayloadSize.Value")
  /\ Step(t, "a272")
  /\ UNCHANGED <<buffer_count, buffer, revoke_list, dev_i, local_device>>
  /\ UNCHANGED <<cbVars, objVars, streamVars, remoteVars, sysVars, reconnects, entry>>
  /\ UNCHANGED hostVars

\* Mutant: the loop of line 275 allocates one buffer too few.
BufferCountMax_offByOne == MinRequiredBuffers - 1

\* Line 272: the number of buffers to allocate.
BufferCountMax == MinRequiredBuffers

\* Lines 272, 275: read the minimum count and enter the loop.
alloc_272(t) ==
  /\ pc[t] = "a272"
  /\ Log(t, "NumBuffersAnnouncedMinRequired")
  /\ IF BufferCountMax > 0
       THEN /\ buffer_count' = [buffer_count EXCEPT ![t] = BufferCountMax]
            /\ Step(t, "a277")
            /\ UNCHANGED payload_size
       ELSE /\ payload_size' = [payload_size EXCEPT ![t] = 0]
            /\ Step(t, AfterAlloc(t))
            /\ UNCHANGED buffer_count
  /\ UNCHANGED <<buffer, revoke_list, dev_i, local_device>>
  /\ UNCHANGED <<cbVars, objVars, streamVars, remoteVars, sysVars, reconnects, entry>>
  /\ UNCHANGED hostVars

\* Line 277: the size handed to AllocAndAnnounceBuffer.
AllocSize(t) == payload_size[t]

\* Line 277: AllocAndAnnounceBuffer(payload_size).
alloc_277(t) ==
  /\ pc[t] = "a277"
  /\ announced' = Append(announced, [id |-> nextId, size |-> AllocSize(t)])
  /\ nextId' = nextId + 1
  /\ buffer' = [buffer EXCEPT ![t] = nextId]
  /\ Log(t, "AllocAndAnnounceBuffer")
  /\ Step(t, "a279")
  /\ UNCHANGED <<payload_size, buffer_count, revoke_list, dev_i, local_device>>
  /\ UNCHANGED <<queued, finished, grabbing>>
  /\ UNCHANGED <<cbVars, objVars, remoteVars, sysVars, reconnects, entry>>
  /\ UNCHANGED hostVars

\* Line 279: QueueBuffer(buffer), then the next iteration of line 275.  Queueing
\* a buffer that is no longer announced raises.
alloc_279(t) ==
  /\ pc[t] = "a279"
  /\ Log(t, "QueueBuffer")
  /\ IF buffer[t] \in Ids(announced)
       THEN /\ queued' = Append(Remove(queued, buffer[t]), buffer[t])
            /\ IF buffer_count[t] > 1
                 THEN /\ buffer_count' = [buffer_count EXCEPT ![t] = @ - 1]
                      /\ Step(t, "a277")
                      /\ UNCHANGED <<payload_size, buffer>>
                 ELSE /\ buffer_count' = [buffer_count EXCEPT ![t] = 0]
                      /\ payload_size' = [payload_size EXCEPT ![t] = 0]
                      /\ buffer' = [buffer EXCEPT ![t] = NoBuffer]
                      /\ Step(t, AfterAlloc(t))
       ELSE /\ Throw(t, "Exception")
            /\ UNCHANGED <<queued, buffer_count, payload_size, buffer>>
  /\ UNCHANGED <<revoke_list, dev_i, local_device>>
  /\ UNCHANGED <<announced, finished, grabbing, nextId>>
  /\ UNCHANGED <<cbVars, objVars, remoteVars, sysVars, reconnects, entry>>
  /\ UNCHANGED hostVars

\* ------------------------------------------------------------- revoke_buffers
\* Line 283: Flush(DataStreamFlushMode_DiscardAll) empties the input pool and
\* the output queue.
revoke_283(t) ==
  /\ pc[t] = "r283"
  /\ queued' = <<>>
  /\ finished' = <<>>
  /\ Log(t, "Flush")
  /\ Step(t, "r285")
  /\ UNCHANGED <<payload_size, buffer_count, buffer, revoke_list, dev_i, local_device>>
  /\ UNCHANGED <<announced, grabbing, nextId>>
  /\ UNCHANGED <<cbVars, objVars, remoteVars, sysVars, reconnects, entry>>
  /\ UNCHANGED hostVars

\* Line 285: AnnouncedBuffers() is read once, the loop iterates over that list.
revoke_285(t) ==
  /\ pc[t] = "r285"
  /\ revoke_list' = [revoke_list EXCEPT ![t] = IdSeq(announced)]
  /\ Log(t, "AnnouncedBuffers")
  /\ Step(t, IF announced = <<>> THEN AfterRevoke(t) ELSE "r287")
  /\ UNCHANGED <<payload_size, buffer_count, buffer, dev_i, local_device>>
  /\ UNCHANGED <<cbVars, objVars, streamVars, remoteVars, sysVars, reconnects, entry>>
  /\ UNCHANGED hostVars

\* Line 287: RevokeBuffer(buffer).  Revoking a buffer that is not announced
\* raises; revoking one that is back in a queue either raises or takes it out
\* of the queue (the transport layer decides).
revoke_287(t) ==
  /\ pc[t] = "r287"
  /\ Log(t, "RevokeBuffer")
  /\ LET b == Head(revoke_list[t])
         inQueue == b \in Range(queued) \cup Range(finished)
     IN \/ /\ b \in Ids(announced)
           /\ announced' = Without(announced, b)
           /\ queued' = Remove(queued, b)
           /\ finished' = Remove(finished, b)
           /\ revoke_list' = [revoke_list EXCEPT ![t] = Tail(@)]
           /\ Step(t, IF Len(revoke_list[t]) > 1 THEN "r287" ELSE AfterRevoke(t))
        \/ /\ b \notin Ids(announced) \/ inQueue
           /\ Throw(t, "Exception")
           /\ UNCHANGED <<announced, queued, finished, revoke_list>>
  /\ UNCHANGED <<payload_size, buffer_count, buffer, dev_i, local_device>>
  /\ UNCHANGED <<grabbing, nextId>>
  /\ UNCHANGED <<cbVars, objVars, remoteVars, sysVars, reconnects, entry>>
  /\ UNCHANGED hostVars


\* ------------------------------------------------------------- main thread
mainLocals == <<payload_size, buffer_count, buffer, revoke_list, dev_i, local_device>>

\* Lines 131-158: the callbacks register_callbacks registers.
register_callbacks == CallbackKinds

\* Mutant: the reconnected callback is left registered.
unregister_callbacks_three == CallbackKinds \ {"reconnected"}

\* Lines 164-171: the callbacks unregister_callbacks unregisters.
unregister_callbacks == CallbackKinds

\* Lines 340, 30-40: IDSCam().
IDSCam_init ==
  /\ pc["main"] = "m340"
  /\ libInit' = libInit + 1
  /\ acquisition_running' = FALSE
  /\ device' = 0
  /\ remote_nodemap' = FALSE
  /\ data_stream' = FALSE
  /\ registered' = registered \cup register_callbacks
  /\ Step("main", "m298")
  /\ UNCHANGED <<mainLocals, cbVars, streamVars, remoteVars, obsVars>>
  /\ UNCHANGED <<reconnectNode, devices, opened, libClose, retval>>
  /\ UNCHANGED hostVars

\* Line 298: DeviceManager.Instance().Update().
run_298 ==
  /\ pc["main"] = "m298"
  /\ dev_i' = 1
  /\ local_device' = 0
  /\ Step("main", IF Len(devices) = 0 THEN "m219" ELSE "m214")
  /\ UNCHANGED <<payload_size, buffer_count, buffer, revoke_list>>
  /\ UNCHANGED <<cbVars, objVars, streamVars, remoteVars, sysVars, obsVars>>
  /\ UNCHANGED hostVars

\* Lines 214-216: one iteration of the loop over Devices(); every openable
\* device is opened and the local `device` is overwritten.
open_device_214 ==
  /\ pc["main"] = "m214"
  /\ IF devices[dev_i]
       THEN opened' = opened \cup {dev_i} /\ local_device' = dev_i
       ELSE UNCHANGED <<opened, local_device>>
  /\ dev_i' = dev_i + 1
  /\ Step("main", IF dev_i < Len(devices) THEN "m214" ELSE "m219")
  /\ UNCHANGED <<payload_size, buffer_count, buffer, revoke_list>>
  /\ UNCHANGED <<cbVars, objVars, streamVars, remoteVars, obsVars>>
  /\ UNCHANGED <<reconnectNode, devices, registered, libInit, libClose, retval>>
  /\ UNCHANGED hostVars

\* Mutant: the check of line 219 is missing.
NoDeviceFound_never(d) == FALSE

\* Line 219: `device is None` after the loop over Devices().
NoDeviceFound(d) == d = 0

\* Lines 219-222: no device raises Exception, else self.device = device (the
\* locals of the loop are not used again).
open_device_219 ==
  /\ pc["main"] = "m219"
  /\ IF NoDeviceFound(local_device)
       THEN Throw("main", "Exception") /\ UNCHANGED device
       ELSE device' = local_device /\ Step("main", "m225")
  /\ dev_i' = 1
  /\ local_device' = 0
  /\ UNCHANGED <<payload_size, buffer_count, buffer, revoke_list>>
  /\ UNCHANGED <<cbVars, streamVars, remoteVars, sysVars, obsVars>>
  /\ UNCHANGED <<acquisition_running, remote_nodemap, data_stream>>
  /\ UNCHANGED hostVars

\* Lines 224-225: self.remote_nodemap = ...NodeMaps()[0].
open_device_225 ==
  /\ pc["main"] = "m225"
  /\ remote_nodemap' = TRUE
  /\ Step("main", "m226")
  /\ UNCHANGED <<mainLocals, cbVars, streamVars, remoteVars, sysVars, obsVars>>
  /\ UNCHANGED <<acquisition_running, device, data_stream>>
  /\ UNCHANGED hostVars

\* Line 226: self.data_stream = ...OpenDataStream().
open_device_226 ==
  /\ pc["main"] = "m226"
  /\ data_stream' = TRUE
  /\ Step("main", "m234")
  /\ UNCHANGED <<mainLocals, cbVars, streamVars, remoteVars, sysVars, obsVars>>
  /\ UNCHANGED <<acquisition_running, device, remote_nodemap>>
  /\ UNCHANGED hostVars

\* Mutant: a read-only node is accepted without looking at its value.
ReadOnlyAndTrue_anyValue(node) == node.access = "RO"

\* Lines 246-248: the node is read-only and its value is true.
ReadOnlyAndTrue(node) == node.access = "RO" /\ node.value

\* Lines 234-250: enable_reconnect.  SystemExit when the node is missing or
\* can neither be written nor is already true.
enable_reconnect ==
  /\ pc["main"] = "m234"
  /\ IF ~reconnectNode.has
       THEN Throw("main", "SystemExit") /\ UNCHANGED reconnectNode
       ELSE IF reconnectNode.access = "RW"
       THEN reconnectNode' = [reconnectNode EXCEPT !.value = TRUE] /\ Step("main", "m253")
       ELSE IF ReadOnlyAndTrue(reconnectNode)
       THEN Step("main", "m253") /\ UNCHANGED reconnectNode
       ELSE Throw("main", "SystemExit") /\ UNCHANGED reconnectNode
  /\ UNCHANGED <<mainLocals, cbVars, objVars, streamVars, remoteVars, obsVars>>
  /\ UNCHANGED <<devices, opened, registered, libInit, libClose, retval>>
  /\ UNCHANGED hostVars

\* Lines 253-254: UserSetSelector = Default.
load_defaults_253 ==
  /\ pc["main"] = "m253"
  /\ Step("main", "m256")
  /\ UNCHANGED <<mainLocals, cbVars, objVars, streamVars, remoteVars, sysVars, obsVars>>
  /\ UNCHANGED hostVars

\* Line 256: UserSetLoad.Execute(); the default user set brings its own
\* payload size.
load_defaults_256 ==
  /\ pc["main"] = "m256"
  /\ PayloadSize' \in PayloadSizes
  /\ Step("main", "m258")
  /\ UNCHANGED <<TLParamsLocked, remoteAcq>>
  /\ UNCHANGED <<mainLocals, cbVars, objVars, streamVars, sysVars, obsVars>>
  /\ UNCHANGED hostVars

\* Line 258: UserSetLoad.WaitUntilDone().
load_defaults_258 ==
  /\ pc["main"] = "m258"
  /\ Step("main", "m311")
  /\ UNCHANGED <<mainLocals, cbVars, objVars, streamVars, remoteVars, sysVars, obsVars>>
  /\ UNCHANGED hostVars

\* Lines 309-311: ExposureTime.SetValue; then line 320, alloc_buffers.
run_311 ==
  /\ pc["main"] = "m311"
  /\ Step("main", "a269")
  /\ UNCHANGED <<mainLocals, cbVars, objVars, streamVars, remoteVars, sysVars, obsVars>>
  /\ UNCHANGED hostVars

\* Line 179: TLParamsLocked.SetValue(1).
loop_179 ==
  /\ pc["main"] = "m179"
  /\ TLParamsLocked' = 1
  /\ Step("main", "m181")
  /\ UNCHANGED <<PayloadSize, remoteAcq>>
  /\ UNCHANGED <<mainLocals, cbVars, objVars, streamVars, sysVars, obsVars>>
  /\ UNCHANGED hostVars

\* StartAcquisition on a stream that is grabbing and StopAcquisition on one
\* that is not: the call either raises or changes nothing (the transport
\* layer decides).  redundant is TRUE when the stream is already in the state
\* asked for.
StreamCall(t, redundant, target, next) ==
  \/ /\ grabbing' = target
     /\ Step(t, next)
  \/ /\ redundant
     /\ Throw(t, "Exception")
     /\ UNCHANGED grabbing

\* Line 181: data_stream.StartAcquisition().
loop_181 ==
  /\ pc["main"] = "m181"
  /\ StreamCall("main", grabbing, TRUE, "m182")
  /\ UNCHANGED <<announced, queued, finished, nextId>>
  /\ UNCHANGED <<mainLocals, cbVars, objVars, remoteVars, sysVars, obsVars>>
  /\ UNCHANGED hostVars

\* Line 182: AcquisitionStart.Execute().
loop_182 ==
  /\ pc["main"] = "m182"
  /\ remoteAcq' = TRUE
  /\ Step("main", "m183")
  /\ UNCHANGED <<PayloadSize, TLParamsLocked>>
  /\ UNCHANGED <<mainLocals, cbVars, objVars, streamVars, sysVars, obsVars>>
  /\ UNCHANGED hostVars

\* Line 183: AcquisitionStart.WaitUntilDone().
loop_183 ==
  /\ pc["main"] = "m183"
  /\ Step("main", "m185")
  /\ UNCHANGED <<mainLocals, cbVars, objVars, streamVars, remoteVars, sysVars, obsVars>>
  /\ UNCHANGED hostVars

\* Line 185: self.acquisition_running = True.
loop_185 ==
  /\ pc["main"] = "m185"
  /\ acquisition_running' = TRUE
  /\ Step("main", "m188")
  /\ UNCHANGED <<device, remote_nodemap, data_stream>>
  /\ UNCHANGED <<mainLocals, cbVars, streamVars, remoteVars, sysVars, obsVars>>
  /\ UNCHANGED hostVars

\* Line 188: while self.acquisition_running.
loop_188 ==
  /\ pc["main"] = "m188"
  /\ Step("main", IF acquisition_running THEN "m191" ELSE "m203")
  /\ UNCHANGED <<mainLocals, cbVars, objVars, streamVars, remoteVars, sysVars, obsVars>>
  /\ UNCHANGED hostVars

\* Lines 191-193: WaitForFinishedBuffer(INFINITE_TIMEOUT) blocks until the
\* output queue holds a buffer; FrameID is printed.
loop_191 ==
  /\ pc["main"] = "m191"
  /\ finished # <<>>
  /\ buffer' = [buffer EXCEPT !["main"] = Head(finished)]
  /\ finished' = Tail(finished)
  /\ Step("main", "m195")
  /\ UNCHANGED <<payload_size, buffer_count, revoke_list, dev_i, local_device>>
  /\ UNCHANGED <<announced, queued, grabbing, nextId>>
  /\ UNCHANGED <<cbVars, objVars, remoteVars, sysVars, obsVars>>
  /\ UNCHANGED hostVars

\* Line 195: QueueBuffer(buffer); raises for a buffer that was revoked.
loop_195 ==
  /\ pc["main"] = "m195"
  /\ IF buffer["main"] \in Ids(announced)
       THEN /\ queued' = Append(Remove(queued, buffer["main"]), buffer["main"])
            /\ Step("main", "m188")
       ELSE /\ Throw("main", "Exception")
            /\ UNCHANGED queued
  /\ UNCHANGED <<announced, finished, grabbing, nextId>>
  /\ UNCHANGED <<mainLocals, cbVars, objVars, remoteVars, sysVars, obsVars>>
  /\ UNCHANGED hostVars

\* Lines 196-198: except KeyboardInterrupt: print, break.
loop_197 ==
  /\ pc["main"] = "m197"
  /\ pc' = [pc EXCEPT !["main"] = "m203"]
  /\ exc' = [exc EXCEPT !["main"] = "none"]
  /\ UNCHANGED <<mainLocals, cbVars, objVars, streamVars, remoteVars, sysVars, obsVars>>
  /\ UNCHANGED hostVars

\* Mutant: the handler of line 199 ends the loop.
AfterLoopException_break == "m203"

\* Where the handler of line 199 leaves the main thread: back at line 188.
AfterLoopException == "m188"

\* Lines 199-200: except Exception: print.
loop_200 ==
  /\ pc["main"] = "m200"
  /\ pc' = [pc EXCEPT !["main"] = AfterLoopException]
  /\ exc' = [exc EXCEPT !["main"] = "none"]
  /\ UNCHANGED <<mainLocals, cbVars, objVars, streamVars, remoteVars, sysVars, obsVars>>
  /\ UNCHANGED hostVars

\* Line 203: AcquisitionStop.Execute().
loop_203 ==
  /\ pc["main"] = "m203"
  /\ remoteAcq' = FALSE
  /\ Step("main", "m204")
  /\ UNCHANGED <<PayloadSize, TLParamsLocked>>
  /\ UNCHANGED <<mainLocals, cbVars, objVars, streamVars, sysVars, obsVars>>
  /\ UNCHANGED hostVars

\* Line 204: AcquisitionStop.WaitUntilDone().
loop_204 ==
  /\ pc["main"] = "m204"
  /\ Step("main", "m205")
  /\ UNCHANGED <<mainLocals, cbVars, objVars, streamVars, remoteVars, sysVars, obsVars>>
  /\ UNCHANGED hostVars

\* Lines 205-206: data_stream.StopAcquisition(AcquisitionStopMode_Default).
loop_205 ==
  /\ pc["main"] = "m205"
  /\ StreamCall("main", ~grabbing, FALSE, "m209")
  /\ UNCHANGED <<announced, queued, finished, nextId>>
  /\ UNCHANGED <<mainLocals, cbVars, objVars, remoteVars, sysVars, obsVars>>
  /\ UNCHANGED hostVars

\* Line 209: TLParamsLocked.SetValue(0); run_acquisition_loop returns (its
\* local `buffer` ends) and line 326 calls revoke_buffers.
loop_209 ==
  /\ pc["main"] = "m209"
  /\ TLParamsLocked' = 0
  /\ buffer' = [buffer EXCEPT !["main"] = NoBuffer]
  /\ Step("main", "r283")
  /\ UNCHANGED <<PayloadSize, remoteAcq>>
  /\ UNCHANGED <<payload_size, buffer_count, revoke_list, dev_i, local_device>>
  /\ UNCHANGED <<cbVars, objVars, streamVars, sysVars, obsVars>>
  /\ UNCHANGED hostVars

\* Labels of the try block of run() at which the main thread calls the SDK:
\* the call may raise.
SdkCallPcs ==
  {"m298", "m214", "m225", "m226", "m234", "m253", "m256", "m258", "m311",
   "a269", "a272", "a277", "a279", "m179", "m181", "m182", "m183",
   "m191", "m195", "m203", "m204", "m205", "m209", "r283", "r285", "r287"}

\* Labels of the try block of run() that are plain statements: only a user
\* interrupt can strike there.
PlainPcs == {"m219", "m185", "m188", "m197", "m200"}

\* An SDK call of the main thread raises, or the user interrupts the main
\* thread, anywhere in the try block of run() (lines 296-326).  Inside the
\* try block of the loop the loop's handlers take it and `buffer` stays in
\* scope; anywhere else it unwinds to the handlers of run() and the locals of
\* the frames it leaves are gone.
MainFault ==
  /\ pc["main"] \in SdkCallPcs \cup PlainPcs
  /\ \E kind \in ExceptionKinds :
       /\ pc["main"] \in PlainPcs => kind = "KeyboardInterrupt"
       /\ Throw("main", kind)
  /\ IF pc["main"] \in LoopTryPcs
       THEN UNCHANGED mainLocals
       ELSE /\ payload_size' = [payload_size EXCEPT !["main"] = 0]
            /\ buffer_count' = [buffer_count EXCEPT !["main"] = 0]
            /\ buffer' = [buffer EXCEPT !["main"] = NoBuffer]
            /\ revoke_list' = [revoke_list EXCEPT !["main"] = <<>>]
            /\ dev_i' = 1
            /\ local_device' = 0
  /\ UNCHANGED <<cbVars, objVars, streamVars, remoteVars, sysVars, obsVars>>
  /\ UNCHANGED hostVars

\* Lines 328-332: the handlers of run().  AbortedException is printed, any
\* other Exception makes run() return -2, anything else (KeyboardInterrupt,
\* SystemExit) goes on propagating; the finally block runs in each case.  The
\* frames the exception left are gone, and their locals with them.
RunResult(kind) ==
  IF kind \in {"none", "AbortedException"} THEN "None"
  ELSE IF kind = "Exception" THEN "-2"
  ELSE kind

run_328 ==
  /\ pc["main"] = "m328"
  /\ Step("main", "m335")
  /\ payload_size' = [payload_size EXCEPT !["main"] = 0]
  /\ buffer_count' = [buffer_count EXCEPT !["main"] = 0]
  /\ buffer' = [buffer EXCEPT !["main"] = NoBuffer]
  /\ revoke_list' = [revoke_list EXCEPT !["main"] = <<>>]
  /\ dev_i' = 1
  /\ local_device' = 0
  /\ UNCHANGED <<cbVars, objVars, streamVars, remoteVars, sysVars, obsVars>>
  /\ UNCHANGED hostVars

\* Lines 339-341: the script calls example.run() and drops what it returns,
\* so the interpreter ends with code 0 after a return; SystemExit with a
\* message ends it with code 1; a KeyboardInterrupt that nobody caught ends it
\* with code 1 or, re-raised as the signal, with 130.
ExitCodes(result) ==
  IF result \in {"None", "-2"} THEN {0}
  ELSE IF result = "SystemExit" THEN {1}
  ELSE {1, 130}

\* Mutant: run() ends after unregister_callbacks.
AfterUnregister_skipClose == "done"

\* Lines 335-336: Library.Close() follows unregister_callbacks().
AfterUnregister == "m336"

\* Line 335: unregister_callbacks().
run_335 ==
  /\ pc["main"] = "m335"
  /\ registered' = registered \ unregister_callbacks
  /\ Step("main", AfterUnregister)
  /\ UNCHANGED <<mainLocals, cbVars, objVars, streamVars, remoteVars, obsVars>>
  /\ UNCHANGED <<reconnectNode, devices, opened, libInit, libClose, retval>>
  /\ UNCHANGED hostVars

\* Line 336: Library.Close(); run() ends.
run_336 ==
  /\ pc["main"] = "m336"
  /\ libClose' = libClose + 1
  /\ opened' = {}
  /\ retval' = RunResult(exc["main"])
  /\ Step("main", "done")
  /\ UNCHANGED <<mainLocals, cbVars, objVars, streamVars, remoteVars, obsVars>>
  /\ UNCHANGED <<reconnectNode, devices, registered, libInit>>
  /\ UNCHANGED hostVars

MainAlloc == alloc_269("main") \/ alloc_272("main") \/ alloc_277("main") \/ alloc_279("main")
MainRevoke == revoke_283("main") \/ revoke_285("main") \/ revoke_287("main")

MainStep ==
  \/ IDSCam_init \/ run_298 \/ open_device_214 \/ open_device_219
  \/ open_device_225 \/ open_device_226 \/ enable_reconnect
  \/ load_defaults_253 \/ load_defaults_256 \/ load_defaults_258 \/ run_311
  \/ MainAlloc
  \/ loop_179 \/ loop_181 \/ loop_182 \/ loop_183 \/ loop_185 \/ loop_188
  \/ loop_191 \/ loop_195 \/ loop_197 \/ loop_200
  \/ loop_203 \/ loop_204 \/ loop_205 \/ loop_209
  \/ MainRevoke
  \/ MainFault
  \/ run_328 \/ run_335 \/ run_336


\* ------------------------------------------------------------- notification thread
cbLocals == <<payload_size, buffer_count, buffer, revoke_list, dev_i, local_device>>

\* The device manager delivers a `Reconnected` event for a device this process
\* opened, with reconnect enabled, while the callback is registered.  While it
\* was away the device may have rebooted: its payload size is any value and the
\* information i tells what the SDK could restore.
DeviceReconnectedEvent ==
  /\ pc["cb"] = "idle"
  /\ "reconnected" \in registered
  /\ opened # {}
  /\ reconnectNode.has /\ reconnectNode.value
  /\ reconnects < MaxReconnects
  /\ \E i \in Infos, p \in PayloadSizes :
       /\ info' = i
       /\ PayloadSize' = p
       /\ remoteAcq' = i.remoteRunning
       /\ entry' = [called |-> TRUE, announced |-> announced, grabbing |-> grabbing,
                    payload |-> p, acquisition_running |-> acquisition_running,
                    remoteAcq |-> i.remoteRunning]
  /\ reconnects' = reconnects + 1
  /\ cbLog' = <<>>
  /\ Step("cb", "c116")
  /\ UNCHANGED <<cbLocals, cb_payload_size, has_payload_size_mismatch,
                 is_data_stream_running, TLParamsLocked>>
  /\ UNCHANGED <<objVars, streamVars, sysVars>>
  /\ UNCHANGED hostVars

\* Lines 106-121: device_reconnected prints and returns on success, else it
\* calls the recovery.
device_reconnected ==
  /\ pc["cb"] = "c116"
  /\ Step("cb", IF ReconnectNothingToDo(info) THEN "creturn" ELSE "c73")
  /\ UNCHANGED <<cbLocals, cbVars, objVars, streamVars, remoteVars, sysVars, obsVars>>
  /\ UNCHANGED hostVars

\* Line 73: self.remote_nodemap.FindNode("PayloadSize").Value(); an
\* AttributeError while self.remote_nodemap is still None.
ensure_73 ==
  /\ pc["cb"] = "c73"
  /\ IF remote_nodemap
       THEN /\ cb_payload_size' = PayloadSize
            /\ Log("cb", "PayloadSize.Value")
            /\ Step("cb", "c75")
       ELSE /\ Throw("cb", "Exception")
            /\ UNCHANGED <<cb_payload_size, cbLog>>
  /\ UNCHANGED <<info, has_payload_size_mismatch, is_data_stream_running>>
  /\ UNCHANGED <<cbLocals, objVars, streamVars, remoteVars, sysVars, reconnects, entry>>
  /\ UNCHANGED hostVars

\* Lines 75-79: self.data_stream.AnnouncedBuffers()[0].Size(); an
\* AttributeError while self.data_stream is None, an IndexError while no
\* buffer is announced.
ensure_75 ==
  /\ pc["cb"] = "c75"
  /\ IF data_stream /\ announced # <<>>
       THEN /\ has_payload_size_mismatch' = PayloadSizeMismatch(cb_payload_size, announced)
            /\ Log("cb", "AnnouncedBuffers")
            /\ Step("cb", IF PayloadSizeMismatch(cb_payload_size, announced)
                            THEN "c82" ELSE AfterRestart)
       ELSE /\ Throw("cb", "Exception")
            /\ UNCHANGED <<has_payload_size_mismatch, cbLog>>
  /\ UNCHANGED <<info, cb_payload_size, is_data_stream_running>>
  /\ UNCHANGED <<cbLocals, objVars, streamVars, remoteVars, sysVars, reconnects, entry>>
  /\ UNCHANGED hostVars

\* Lines 82-83: is_data_stream_running = IsGrabbing().
ensure_82 ==
  /\ pc["cb"] = "c82"
  /\ is_data_stream_running' = grabbing
  /\ Log("cb", "IsGrabbing")
  /\ Step("cb", IF grabbing THEN "c84" ELSE "r283")
  /\ UNCHANGED <<info, cb_payload_size, has_payload_size_mismatch>>
  /\ UNCHANGED <<cbLocals, objVars, streamVars, remoteVars, sysVars, reconnects, entry>>
  /\ UNCHANGED hostVars

\* Line 84: StopAcquisition(); then line 86, revoke_buffers.
ensure_84 ==
  /\ pc["cb"] = "c84"
  /\ Log("cb", "StopAcquisition")
  /\ StreamCall("cb", ~grabbing, FALSE, "r283")
  /\ UNCHANGED <<announced, queued, finished, nextId>>
  /\ UNCHANGED <<cbLocals, cbVars, objVars, remoteVars, sysVars, reconnects, entry>>
  /\ UNCHANGED hostVars

\* Line 92: StartAcquisition().
ensure_92 ==
  /\ pc["cb"] = "c92"
  /\ Log("cb", "StartAcquisition")
  /\ StreamCall("cb", grabbing, TRUE, AfterRestart)
  /\ UNCHANGED <<announced, queued, finished, nextId>>
  /\ UNCHANGED <<cbLocals, cbVars, objVars, remoteVars, sysVars, reconnects, entry>>
  /\ UNCHANGED hostVars

\* Line 95: AcquisitionStart.Execute(), without WaitUntilDone.
ensure_95 ==
  /\ pc["cb"] = "c95"
  /\ remoteAcq' = TRUE
  /\ Log("cb", "AcquisitionStart.Execute")
  /\ Step("cb", "creturn")
  /\ UNCHANGED <<PayloadSize, TLParamsLocked>>
  /\ UNCHANGED <<cbLocals, cbVars, objVars, streamVars, sysVars, reconnects, entry>>
  /\ UNCHANGED hostVars

\* The callback has returned, or an exception has left it: the notification
\* thread is free for the next event.
CallbackEnds ==
  /\ pc["cb"] \in {"creturn", "craised"}
  /\ pc' = [pc EXCEPT !["cb"] = "idle"]
  /\ exc' = [exc EXCEPT !["cb"] = "none"]
  /\ payload_size' = [payload_size EXCEPT !["cb"] = 0]
  /\ buffer_count' = [buffer_count EXCEPT !["cb"] = 0]
  /\ buffer' = [buffer EXCEPT !["cb"] = NoBuffer]
  /\ revoke_list' = [revoke_list EXCEPT !["cb"] = <<>>]
  /\ info' = NoInfo
  /\ cb_payload_size' = 0
  /\ has_payload_size_mismatch' = FALSE
  /\ is_data_stream_running' = FALSE
  /\ entry' = NoEntry
  /\ cbLog' = <<>>
  /\ UNCHANGED <<dev_i, local_device, reconnects>>
  /\ UNCHANGED <<objVars, streamVars, remoteVars, sysVars>>
  /\ UNCHANGED hostVars

CbAlloc == alloc_269("cb") \/ alloc_272("cb") \/ alloc_277("cb") \/ alloc_279("cb")
CbRevoke == revoke_283("cb") \/ revoke_285("cb") \/ revoke_287("cb")

CallbackStep ==
  \/ device_reconnected \/ ensure_73 \/ ensure_75 \/ ensure_82 \/ ensure_84
  \/ CbRevoke \/ CbAlloc
  \/ ensure_92 \/ ensure_95
  \/ CallbackEnds

\* ------------------------------------------------------------- device
\* The remote device fills the oldest queued buffer while both the local
\* stream and the remote acquisition run.
DeviceFillsBuffer ==
  /\ grabbing /\ remoteAcq
  /\ queued # <<>>
  /\ finished' = Append(finished, Head(queued))
  /\ queued' = Tail(queued)
  /\ UNCHANGED <<announced, grabbing, nextId>>
  /\ UNCHANGED <<threadVars, cbVars, objVars, remoteVars, sysVars, obsVars>>
  /\ UNCHANGED hostVars

Environment == DeviceReconnectedEvent \/ DeviceFillsBuffer

\* ------------------------------------------------------------- specifications
\* The two threads interleave at every SDK call, in the environments in which
\* run() gets to the acquisition loop.
Next == MainStep \/ CallbackStep \/ Environment

Spec == InitOneDevice /\ [][Next]_vars

\* Every environment; the callback runs while the main thread is not
\* scheduled (it is blocked in an SDK call, typically WaitForFinishedBuffer):
\* run() on every path, and the contract of the callback taken by itself.
NextSerial == (pc["cb"] = "idle" /\ MainStep) \/ CallbackStep \/ Environment

SpecSerial == Init /\ [][NextSerial]_vars

\* ------------------------------------------------------------- logging callbacks
\* The device manager calls one of the callbacks that only print: the
\* notification thread enters it at label.  What the monitor holds at that
\* moment is kept in entry.
Notify(kind, label) ==
  /\ pc["cb"] = "idle"
  /\ kind \in registered
  /\ entry' = [called |-> TRUE, kind |-> kind, announced |-> announced,
               grabbing |-> grabbing, acquisition_running |-> acquisition_running,
               device |-> device, registered |-> registered]
  /\ Step("cb", label)
  /\ UNCHANGED <<cbLocals, cbVars, objVars, streamVars, remoteVars, sysVars,
                 reconnects, cbLog>>
  /\ UNCHANGED hostVars

\* `Found`: DeviceManager.Update() has found a device.
DeviceFoundEvent == Notify("found", "c47")

\* `Lost`: a device that is not held with reconnect enabled is gone.
DeviceLostEvent == Notify("lost", "c58")

\* `Disconnected`: a device this process opened, with reconnect enabled, has
\* lost its connection.
DeviceDisconnectedEvent ==
  /\ opened # {}
  /\ reconnectNode.has /\ reconnectNode.value
  /\ Notify("disconnected", "c129")

\* Mutant: the callback ends the acquisition loop.
AfterLog_stopsLoop(running) == FALSE

\* Lines 47, 58, 129: the callback prints; self.acquisition_running is what
\* it was.
AfterLog(running) == running

\* The body of a logging callback at label: one print, then it returns.
LogAndReturn(label) ==
  /\ pc["cb"] = label
  /\ acquisition_running' = AfterLog(acquisition_running)
  /\ Step("cb", "nreturn")
  /\ UNCHANGED <<device, remote_nodemap, data_stream>>
  /\ UNCHANGED <<cbLocals, cbVars, streamVars, remoteVars, sysVars, obsVars>>
  /\ UNCHANGED hostVars

\* Lines 42-47: device_found.
device_found == LogAndReturn("c47")

\* Lines 50-58: device_lost.
device_lost == LogAndReturn("c58")

\* Lines 123-129: device_disconnected.
device_disconnected == LogAndReturn("c129")

\* The logging callback has returned: the notification thread is free.
NotificationReturns ==
  /\ pc["cb"] = "nreturn"
  /\ Step("cb", "idle")
  /\ entry' = NoEntry
  /\ UNCHANGED <<cbLocals, cbVars, objVars, streamVars, remoteVars, sysVars,
                 reconnects, cbLog>>
  /\ UNCHANGED hostVars

Notification ==
  \/ DeviceFoundEvent \/ DeviceLostEvent \/ DeviceDisconnectedEvent
  \/ device_found \/ device_lost \/ device_disconnected
  \/ NotificationReturns

\* run() with all four callbacks delivered, each while the main thread is not
\* scheduled.
NextNotify == NextSerial \/ Notification

SpecNotify == InitOneDevice /\ [][NextNotify]_vars

\* ------------------------------------------------------------- main.py
\* An exception leaves the orchestrator: the script ends with a traceback.
OrchRaise(kind) == orch_pc' = "oraised" /\ orch_exc' = kind

\* Lines 54-55: json.load of the configuration file.
main_54 ==
  /\ orch_pc = "o54"
  /\ data' = json_load(config_file)
  /\ orch_pc' = "o58"
  /\ UNCHANGED <<config_file, fps_hsi, row_start, row_width, process_dict,
                 launched, reported, orch_exc>>
  /\ UNCHANGED <<idsVars, svoVars, poseVars>>

\* Line 59: 1e3/fps_hsi.
ExposureMs(fps) == PyFloat(1000, fps)

\* Lines 58-59: pixel_format and exposure_ms.
main_58 ==
  /\ orch_pc = "o58"
  /\ data' = DictSet(DictSet(data, "pixel_format", PyStr("Mono8")),
                     "exposure_ms", ExposureMs(fps_hsi))
  /\ orch_pc' = "o68"
  /\ UNCHANGED <<config_file, fps_hsi, row_start, row_width, process_dict,
                 launched, reported, orch_exc>>
  /\ UNCHANGED <<idsVars, svoVars, poseVars>>

\* Mutant: offset given as [row, column].
WinOffset_swapped(start) == <<start, 0>>

\* Line 68: [0, row_start].
WinOffset(start) == <<0, start>>

\* Line 69: [1936, row_width].
WinResolution(width) == <<1936, width>>

\* Lines 68-69: win_offset and win_resolution.
main_68 ==
  /\ orch_pc = "o68"
  /\ data' = DictSet(DictSet(data, "win_offset", PyList(WinOffset(row_start))),
                     "win_resolution", PyList(WinResolution(row_width)))
  /\ orch_pc' = "o71"
  /\ UNCHANGED <<config_file, fps_hsi, row_start, row_width, process_dict,
                 launched, reported, orch_exc>>
  /\ UNCHANGED <<idsVars, svoVars, poseVars>>

\* Line 71: the list with its first element set to 552.
PatchResolution(l) == [l EXCEPT ![1] = 552]

\* Line 71: data['resolution'][0] = 552.  A KeyError without the key, an
\* IndexError on an empty list.
main_71 ==
  /\ orch_pc = "o71"
  /\ IF ~DictHas(data, "resolution")
       THEN OrchRaise("KeyError") /\ UNCHANGED data
       ELSE IF DictGet(data, "resolution").num = <<>>
       THEN OrchRaise("IndexError") /\ UNCHANGED data
       ELSE /\ data' = DictSet(data, "resolution",
                               PyList(PatchResolution(DictGet(data, "resolution").num)))
            /\ orch_pc' = "o74"
            /\ UNCHANGED orch_exc
  /\ UNCHANGED <<config_file, fps_hsi, row_start, row_width, process_dict,
                 launched, reported>>
  /\ UNCHANGED <<idsVars, svoVars, poseVars>>

\* Lines 74-75: json.dump into the configuration file.
main_74 ==
  /\ orch_pc = "o74"
  /\ config_file' = json_dump(data)
  /\ orch_pc' = "o160"
  /\ UNCHANGED <<data, fps_hsi, row_start, row_width, process_dict,
                 launched, reported, orch_exc>>
  /\ UNCHANGED <<idsVars, svoVars, poseVars>>

\* Lines 160-168: record_hsi runs in this process; what it raises ends the
\* orchestrator.
main_160 ==
  /\ orch_pc = "o160"
  /\ IF process_dict["record"] /\ process_dict["record_hsi"]
       THEN \/ orch_pc' = "o170" /\ UNCHANGED orch_exc
            \/ OrchRaise("record_hsi")
       ELSE orch_pc' = "o170" /\ UNCHANGED orch_exc
  /\ UNCHANGED <<config_file, data, fps_hsi, row_start, row_width, process_dict,
                 launched, reported>>
  /\ UNCHANGED <<idsVars, svoVars, poseVars>>

\* Lines 34-39, 186-191: what is printed for a return code.
Report(step, returncode) == [step |-> step, success |-> returncode = 0]

\* Lines 170-176 and 23-42: record_svo runs in a multiprocessing.Process that
\* is joined.  Inside it the subprocess returns a code, or a KeyboardInterrupt
\* leaves `result` unbound and the NameError is caught and printed (line 41);
\* nothing comes back to the orchestrator.
main_170 ==
  /\ orch_pc = "o170"
  /\ IF process_dict["record"] /\ process_dict["record_svo"]
       THEN /\ launched' = Append(launched, "record")
            /\ \/ \E returncode \in ReturnCodes :
                    reported' = Append(reported, Report("record", returncode))
               \/ reported' = Append(reported, [step |-> "record", success |-> FALSE])
       ELSE UNCHANGED <<launched, reported>>
  /\ orch_pc' = "o180"
  /\ UNCHANGED <<config_file, data, fps_hsi, row_start, row_width, process_dict, orch_exc>>
  /\ UNCHANGED <<idsVars, svoVars, poseVars>>

\* Mutant: a failed step ends the pipeline.
AfterChild_gated(returncode, next) == IF returncode = 0 THEN next ELSE "odone"

\* Lines 186-191, 203-208, 223-228, 240-245: both branches print and fall
\* through to the next step.
AfterChild(returncode, next) == next

\* A step of lines 180-248: if the product is asked for, subprocess.run
\* returns a code, which is reported, or cannot start the child (an OSError,
\* which the handler of CalledProcessError does not take).
ChildStep(label, product, step, next) ==
  /\ orch_pc = label
  /\ IF process_dict[product]
       THEN /\ launched' = Append(launched, step)
            /\ \/ \E returncode \in ReturnCodes :
                    /\ reported' = Append(reported, Report(step, returncode))
                    /\ orch_pc' = AfterChild(returncode, next)
                    /\ UNCHANGED orch_exc
               \/ /\ OrchRaise("OSError")
                  /\ UNCHANGED reported
       ELSE /\ orch_pc' = next
            /\ UNCHANGED <<launched, reported, orch_exc>>
  /\ UNCHANGED <<config_file, data, fps_hsi, row_start, row_width, process_dict>>
  /\ UNCHANGED <<idsVars, svoVars, poseVars>>

\* Lines 180-194: export.
main_180 == ChildStep("o180", "export", "export", "o196")

\* Lines 196-211: pose_post.
main_196 == ChildStep("o196", "pose_post", "pose_post", "o217")

\* Lines 217-231: mesh_post.
main_217 == ChildStep("o217", "mesh_post", "mesh_post", "o234")

\* Lines 234-248: mesh_post, a second time.
main_234 == ChildStep("o234", "mesh_post", "mesh_post", "odone")

OrchestratorStep ==
  \/ main_54 \/ main_58 \/ main_68 \/ main_71 \/ main_74
  \/ main_160 \/ main_170 \/ main_180 \/ main_196 \/ main_217 \/ main_234

\* The orchestrator by itself, from any configuration file and any table of
\* products.
InitOrchestrator == IdsOff /\ OrchStartup /\ SvoOff /\ PoseOff

SpecOrchestrator == InitOrchestrator /\ [][OrchestratorStep]_vars

\* ------------------------------------------------------------- zed/record_svo.py
\* The script ends with exit(arg); failed tells whether this is a failure path.
SvoExit(arg, failed) ==
  /\ svo_exit' = <<PyExit(arg)>>
  /\ svo_failed' = failed
  /\ svo_pc' = "exited"

\* Lines 81-84: the output file must be an .svo or .svo2 file, else the script
\* prints and calls exit().
svo_81 ==
  /\ svo_pc = "s81"
  /\ IF IsSvoName(output_svo_file)
       THEN svo_pc' = "s51" /\ UNCHANGED <<svo_failed, svo_exit>>
       ELSE SvoExit(<<>>, TRUE)
  /\ UNCHANGED <<output_svo_file, time_left, frames_recorded>>
  /\ UNCHANGED <<idsVars, orchVars, poseVars>>

\* Lines 51-54: cam.open; exit(1) unless it returns SUCCESS.
svo_51 ==
  /\ svo_pc = "s51"
  /\ \E status \in ErrorCodes :
       IF status # "SUCCESS"
         THEN SvoExit(<<1>>, TRUE)
         ELSE svo_pc' = "s60" /\ UNCHANGED <<svo_failed, svo_exit>>
  /\ UNCHANGED <<output_svo_file, time_left, frames_recorded>>
  /\ UNCHANGED <<idsVars, orchVars, poseVars>>

\* Lines 57-63: cam.enable_recording; exit(1) unless it returns SUCCESS.
svo_60 ==
  /\ svo_pc = "s60"
  /\ \E err \in ErrorCodes :
       IF err # "SUCCESS"
         THEN SvoExit(<<1>>, TRUE)
         ELSE svo_pc' = "s70" /\ UNCHANGED <<svo_failed, svo_exit>>
  /\ UNCHANGED <<output_svo_file, time_left, frames_recorded>>
  /\ UNCHANGED <<idsVars, orchVars, poseVars>>

\* Line 70: while time.time() < time_max; past the deadline main() returns
\* and the script ends with code 0.
svo_70 ==
  /\ svo_pc = "s70"
  /\ IF time_left > 0
       THEN svo_pc' = "s71" /\ UNCHANGED <<svo_failed, svo_exit>>
       ELSE SvoExit(<<>>, FALSE)
  /\ UNCHANGED <<output_svo_file, time_left, frames_recorded>>
  /\ UNCHANGED <<idsVars, orchVars, poseVars>>

\* Lines 71-73: cam.grab; a frame is counted if it returns SUCCESS.
svo_71 ==
  /\ svo_pc = "s71"
  /\ \E status \in ErrorCodes :
       frames_recorded' = IF status = "SUCCESS" THEN frames_recorded + 1
                          ELSE frames_recorded
  /\ time_left' = time_left - 1
  /\ svo_pc' = "s70"
  /\ UNCHANGED <<output_svo_file, svo_failed, svo_exit>>
  /\ UNCHANGED <<idsVars, orchVars, poseVars>>

\* Lines 38-43: SIGINT while the script runs: the handler stops the
\* recording, closes the camera and calls sys.exit(0).
svo_handler ==
  /\ svo_pc \notin {"off", "exited"}
  /\ SvoExit(<<0>>, FALSE)
  /\ UNCHANGED <<output_svo_file, time_left, frames_recorded>>
  /\ UNCHANGED <<idsVars, orchVars, poseVars>>

RecordSvoStep == svo_81 \/ svo_51 \/ svo_60 \/ svo_70 \/ svo_71 \/ svo_handler

\* ------------------------------------------------------------- zed/position_post.py
\* The script ends with exit(arg); failed tells whether this is a failure path.
PoseExit(arg, failed) ==
  /\ pose_exit' = <<PyExit(arg)>>
  /\ pose_failed' = failed
  /\ pose_pc' = "exited"

\* Line 38: parse_args reads from the recording if the name is not empty and
\* ends in .svo or .svo2; else from a stream or a wired camera.
FromSvo == IsSvoName(input_svo_file)

\* Lines 190-192: both --input_svo_file and --ip_address: print and exit().
pose_190 ==
  /\ pose_pc = "p190"
  /\ IF input_svo_file # "" /\ ip_address
       THEN PoseExit(<<>>, TRUE)
       ELSE pose_pc' = "p84" /\ UNCHANGED <<pose_failed, pose_exit>>
  /\ UNCHANGED <<input_svo_file, ip_address, nb_frames, pose_i, grabs_ok,
                 grabs_failed, df, pose_csv>>
  /\ UNCHANGED <<idsVars, orchVars, svoVars>>

\* Lines 77-87: zed.open; exit(1) unless it returns SUCCESS.
pose_84 ==
  /\ pose_pc = "p84"
  /\ \E status \in ErrorCodes :
       IF status # "SUCCESS"
         THEN PoseExit(<<1>>, TRUE)
         ELSE pose_pc' = "p93" /\ UNCHANGED <<pose_failed, pose_exit>>
  /\ UNCHANGED <<input_svo_file, ip_address, nb_frames, pose_i, grabs_ok,
                 grabs_failed, df, pose_csv>>
  /\ UNCHANGED <<idsVars, orchVars, svoVars>>

\* Lines 91-97: zed.enable_positional_tracking; unless it returns SUCCESS the
\* camera is closed and the script calls exit().
pose_93 ==
  /\ pose_pc = "p93"
  /\ \E err \in ErrorCodes :
       IF err # "SUCCESS"
         THEN PoseExit(<<>>, TRUE)
         ELSE pose_pc' = "p110" /\ UNCHANGED <<pose_failed, pose_exit>>
  /\ UNCHANGED <<input_svo_file, ip_address, nb_frames, pose_i, grabs_ok,
                 grabs_failed, df, pose_csv>>
  /\ UNCHANGED <<idsVars, orchVars, svoVars>>

\* zed.get_svo_number_of_frames(): the length of the recording, -1 when the
\* camera does not read a recording.
SvoNumberOfFrames == IF FromSvo THEN 0..MaxFrames ELSE {-1}

\* Lines 100-110: i = 0, an empty DataFrame, nb_frames.
pose_110 ==
  /\ pose_pc = "p110"
  /\ nb_frames' \in SvoNumberOfFrames
  /\ pose_i' = 0
  /\ df' = <<>>
  /\ pose_pc' = "p113"
  /\ UNCHANGED <<input_svo_file, ip_address, grabs_ok, grabs_failed, pose_csv,
                 pose_failed, pose_exit>>
  /\ UNCHANGED <<idsVars, orchVars, svoVars>>

\* Line 113: while i < nb_frames.
pose_113 ==
  /\ pose_pc = "p113"
  /\ pose_pc' = IF pose_i < nb_frames THEN "p114" ELSE "p177"
  /\ UNCHANGED <<input_svo_file, ip_address, nb_frames, pose_i, grabs_ok,
                 grabs_failed, df, pose_csv, pose_failed, pose_exit>>
  /\ UNCHANGED <<idsVars, orchVars, svoVars>>

\* Mutant: the counter of line 176 is advanced outside the if of line 114.
CountsGrab_always(status) == TRUE

\* Line 176 is inside the if of line 114: i advances for a SUCCESS only.
CountsGrab(status) == status = "SUCCESS"

\* Lines 114-176: zed.grab; for SUCCESS the pose of the frame is appended to
\* the DataFrame as one row (line 147).
pose_114 ==
  /\ pose_pc = "p114"
  /\ \E status \in ErrorCodes :
       /\ IF status = "SUCCESS"
            THEN /\ df' = Append(df, grabs_ok + 1)
                 /\ grabs_ok' = grabs_ok + 1
                 /\ UNCHANGED grabs_failed
            ELSE /\ grabs_failed' = IF grabs_failed < MaxFailedGrabs
                                     THEN grabs_failed + 1 ELSE grabs_failed
                 /\ UNCHANGED <<df, grabs_ok>>
       /\ pose_i' = IF CountsGrab(status) THEN pose_i + 1 ELSE pose_i
  /\ pose_pc' = "p113"
  /\ UNCHANGED <<input_svo_file, ip_address, nb_frames, pose_csv, pose_failed, pose_exit>>
  /\ UNCHANGED <<idsVars, orchVars, svoVars>>

\* Lines 177-179: df.to_csv, zed.close; main() returns and the script ends
\* with code 0.
pose_177 ==
  /\ pose_pc = "p177"
  /\ pose_csv' = <<df>>
  /\ PoseExit(<<>>, FALSE)
  /\ UNCHANGED <<input_svo_file, ip_address, nb_frames, pose_i, grabs_ok,
                 grabs_failed, df>>
  /\ UNCHANGED <<idsVars, orchVars, svoVars>>

PositionPostStep ==
  \/ pose_190 \/ pose_84 \/ pose_93 \/ pose_110 \/ pose_113 \/ pose_114 \/ pose_177

\* The two scripts, each run as a process of its own with any arguments.
InitZed == IdsOff /\ OrchOff /\ SvoStartup /\ PoseStartup

NextZed == RecordSvoStep \/ PositionPostStep

SpecZed == InitZed /\ [][NextZed]_vars

\* position_post.py is scheduled as long as it has a step to take.
SpecZedFair == SpecZed /\ WF_vars(PositionPostStep)

\* ------------------------------------------------------------- claims
\* The callback has returned from a reconnect that reported failure.
RecoveryReturned == pc["cb"] = "creturn" /\ ~info.successful

C2_SuccessIsNoOp ==
  (pc["cb"] = "creturn" /\ info.successful)
    => /\ announced = entry.announced
       /\ grabbing = entry.grabbing
       /\ acquisition_running = entry.acquisition_running
       /\ remoteAcq = entry.remoteAcq
       /\ cbLog = <<>>

\* A successful reconnect has returned although the payload size differs from
\* the announced buffers' and the remote acquisition is reported stopped.
C2_Witness ==
  /\ pc["cb"] = "creturn"
  /\ info.successful
  /\ ~info.remoteRunning
  /\ ~info.restored
  /\ announced # <<>>
  /\ PayloadSize # announced[1].size
  /\ grabbing

\* C3: no buffer is revoked from or announced to the pool in a step taken
\* while the data stream is grabbing, under every interleaving of the
\* callback with run().
C3_NoPoolMutationWhileGrabbing == [][announced' # announced => ~grabbing]_vars

LoopPcs == {"m188", "m191", "m195", "m200"}

C7_FaultMovesToStopping ==
  [][ (pc["main"] \in {"m197", "m200"} /\ pc'["main"] # pc["main"] /\ exc'["main"] = "none")
        => pc'["main"] = "m203" ]_vars

\* C8: whenever TLParamsLocked was set to 1 it is back at 0 when run() has
\* finished, also when a start or stop step raised.
C8_UnlockedWhenRunEnds == pc["main"] = "done" => TLParamsLocked = 0

\* C9: a recovery executes AcquisitionStart once if the reconnect information
\* reports the remote acquisition as not running and not at all if it reports
\* it as running, with or without a payload-size mismatch, and never waits
\* for the command.
C9_RemoteStartOnceIfNeeded ==
  RecoveryReturned =>
    /\ Count(cbLog, "AcquisitionStart.Execute") = (IF info.remoteRunning THEN 0 ELSE 1)
    /\ Count(cbLog, "AcquisitionStart.WaitUntilDone") = 0

\* A recovery with a mismatch has returned after executing AcquisitionStart.
C9_Witness ==
  /\ RecoveryReturned
  /\ ~info.remoteRunning
  /\ has_payload_size_mismatch
  /\ Count(cbLog, "AcquisitionStart.Execute") = 1
  /\ remoteAcq

\* C10: once open_device has set remote_nodemap and data_stream, a reconnect
\* that reported failure never raises out of the callback, also in the states
\* of run() in which no buffer is announced.
C10_RecoveryNeverRaises ==
  [][(remote_nodemap /\ data_stream /\ pc["cb"] # "craised")
       => pc'["cb"] # "craised"]_vars

\* Lines 160-248: the child steps the table pd asks for, in the order of the
\* script.
ExpectedLaunches(pd) ==
  (IF pd["record"] /\ pd["record_svo"] THEN <<"record">> ELSE <<>>)
  \o (IF pd["export"] THEN <<"export">> ELSE <<>>)
  \o (IF pd["pose_post"] THEN <<"pose_post">> ELSE <<>>)
  \o (IF pd["mesh_post"] THEN <<"mesh_post", "mesh_post">> ELSE <<>>)

IsPrefix(a, b) == Len(a) <= Len(b) /\ a = SubSeq(b, 1, Len(a))

\* C11: a child step that returns a nonzero code raises nothing; its failure
\* is reported and every later step process_dict asks for is launched.  The
\* steps launched are at each moment the first of the steps asked for, all of
\* them once the orchestrator is through, each step that returned has its
\* report, and no exception ever follows a reported step.
C11_FailedStepDoesNotStopPipeline ==
  /\ IsPrefix(launched, ExpectedLaunches(process_dict))
  /\ orch_pc = "odone" =>
       /\ launched = ExpectedLaunches(process_dict)
       /\ Len(reported) = Len(launched)
  /\ (orch_pc = "oraised" /\ launched # <<>>) =>
       /\ orch_exc = "OSError"
       /\ Len(reported) = Len(launched) - 1

\* The orchestrator is through although the record step and the export step
\* failed: pose_post and mesh_post were launched after them.
C11_Witness ==
  /\ orch_pc = "odone"
  /\ Len(reported) = 5
  /\ reported[1] = [step |-> "record", success |-> FALSE]
  /\ reported[2] = [step |-> "export", success |-> FALSE]
  /\ launched = <<"record", "export", "pose_post", "mesh_post", "mesh_post">>

\* C12: each child script exits with code 0 only when it succeeded: every
\* failure path of record_svo.py and of position_post.py ends the process
\* with a nonzero exit code.
C12_FailureExitsNonzero ==
  /\ (svo_pc = "exited" /\ svo_failed) => svo_exit[1] # 0
  /\ (pose_pc = "exited" /\ pose_failed) => pose_exit[1] # 0

\* C17: when position_post.py has written the pose CSV, its data rows are as
\* many as the grab calls that returned SUCCESS (a failed grab adds no row),
\* and as many as the frames nb_frames of the recording it read.
C17_RowsAreSuccessfulGrabs ==
  pose_csv # <<>> =>
    /\ Len(pose_csv[1]) = grabs_ok
    /\ FromSvo => grabs_ok = nb_frames

\* The CSV of a recording of two frames has been written after a grab failed.
C17_Witness ==
  /\ pose_csv # <<>>
  /\ FromSvo
  /\ nb_frames = 2
  /\ grabs_failed = 1
  /\ Len(pose_csv[1]) = 2

\* C13: when an exception other than AbortedException escapes the steps of
\* run(), the process that was started from the script entry point exits with
\* code -2.
C13_ExceptionExitsMinus2 ==
  (pc["main"] = "done" /\ retval = "-2") => ExitCodes(retval) = {-2}

\* No device of Devices() can be opened.
NoOpenableDevice == \A j \in 1..Len(devices) : ~devices[j]

\* C14: if no device is openable, run() aborts startup: no buffer is ever
\* allocated, TLParamsLocked is never set, neither the data stream nor the
\* remote acquisition is started, the main thread goes from open_device
\* straight to the handlers of run(), and when run() has ended the four
\* callbacks are unregistered and the library is closed.
C14_NoDeviceAbortsStartup ==
  NoOpenableDevice =>
    /\ announced = <<>> /\ nextId = 1
    /\ TLParamsLocked = 0
    /\ ~grabbing /\ ~remoteAcq
    /\ pc["main"] \in {"m340", "m298", "m214", "m219", "m328", "m335", "m336", "done"}
    /\ pc["main"] = "done" => (registered = {} /\ libClose = 1 /\ opened = {})

\* run() has ended with -2 because neither of two listed devices was openable.
C14_Witness ==
  /\ NoOpenableDevice
  /\ Len(devices) = 2
  /\ pc["main"] = "done"
  /\ retval = "-2"
  /\ registered = {}
  /\ libClose = 1

\* The keys the orchestrator patches (lines 58-71).
PatchedKeys == {"pixel_format", "exposure_ms", "win_offset", "win_resolution", "resolution"}

\* The labels of main.py after the file was written.
AfterWritePcs == {"o160", "o170", "o180", "o196", "o217", "o234", "odone"}

\* C15: the patch changes only the keys pixel_format, exposure_ms,
\* win_offset, win_resolution and resolution: writing the patched mapping
\* and reading it back gives those five keys with the patched values and
\* every other key of the original file with its original value, and that
\* mapping is what the file holds afterwards.
C15_PatchKeepsOtherKeys ==
  /\ orch_pc = "o74" =>
       LET back == json_load(json_dump(data))
           orig == json_load(config_file)
       IN /\ Keys(back) = Keys(orig) \cup PatchedKeys
          /\ DictGet(back, "pixel_format") = PyStr("Mono8")
          /\ DictGet(back, "exposure_ms") = PyFloat(1000, fps_hsi)
          /\ DictGet(back, "win_offset") = PyList(<<0, row_start>>)
          /\ DictGet(back, "win_resolution") = PyList(<<1936, row_width>>)
          /\ DictGet(back, "resolution")
               = PyList([DictGet(orig, "resolution").num EXCEPT ![1] = 552])
          /\ \A k \in Keys(orig) \ PatchedKeys : DictGet(back, k) = DictGet(orig, k)
  /\ orch_pc \in AfterWritePcs => json_load(config_file) = data

\* The file was rewritten and still holds the key binxy, which the
\* orchestrator does not know, next to the patched resolution.
C15_Witness ==
  /\ orch_pc = "o160"
  /\ DictHas(json_load(config_file), "binxy")
  /\ DictGet(json_load(config_file), "binxy") = PyList(<<1, 1>>)
  /\ DictGet(json_load(config_file), "resolution") = PyList(<<552, 1936>>)
  /\ DictGet(json_load(config_file), "pixel_format") = PyStr("Mono8")

\* The configuration as patched: `data` once lines 58-69 have run, and what
\* the file holds once it was written.
PatchedConfig == IF orch_pc \in AfterWritePcs THEN json_load(config_file) ELSE data

\* C16: the patched configuration has exposure_ms = 1000/fps_hsi, win_offset
\* = [0, row_start] and win_resolution = [1936, row_width]; with fps_hsi =
\* 135, row_start = 333 and row_width = 550 these are 1000/135 (7.407 ms to
\* three decimals), [0, 333] and [1936, 550].
C16_PatchedValues ==
  orch_pc \in {"o71", "o74"} \cup AfterWritePcs =>
    /\ DictGet(PatchedConfig, "exposure_ms").tag = "float"
    /\ DictGet(PatchedConfig, "exposure_ms").num = <<1000, fps_hsi>>
    /\ DictGet(PatchedConfig, "win_offset") = PyList(<<0, row_start>>)
    /\ DictGet(PatchedConfig, "win_resolution") = PyList(<<1936, row_width>>)
    /\ fps_hsi = 135 =>
         LET e == DictGet(PatchedConfig, "exposure_ms").num
         IN (e[1] * 1000) \div e[2] = 7407
    /\ (row_start = 333 /\ row_width = 550) =>
         /\ DictGet(PatchedConfig, "win_offset").num = <<0, 333>>
         /\ DictGet(PatchedConfig, "win_resolution").num = <<1936, 550>>

\* The file was written with the values of the source: 135, 333 and 550.
C16_Witness ==
  /\ orch_pc = "o160"
  /\ fps_hsi = 135 /\ row_start = 333 /\ row_width = 550
  /\ DictGet(json_load(config_file), "exposure_ms") = PyFloat(1000, 135)
  /\ DictGet(json_load(config_file), "win_offset") = PyList(<<0, 333>>)

\* C18: device_found, device_lost and device_disconnected change no state of
\* the monitor: when one of them returns, the buffer pool, the grabbing state
\* of the data stream, acquisition_running, the device handle and the
\* callback registrations are what they were when it was called.
C18_LoggingCallbacksChangeNothing ==
  pc["cb"] = "nreturn" =>
    /\ announced = entry.announced
    /\ grabbing = entry.grabbing
    /\ acquisition_running = entry.acquisition_running
    /\ device = entry.device
    /\ registered = entry.registered

\* device_disconnected has returned while the acquisition loop is running on
\* a grabbing stream.
C18_Witness ==
  /\ pc["cb"] = "nreturn"
  /\ entry.kind = "disconnected"
  /\ grabbing
  /\ acquisition_running
  /\ announced # <<>>
  /\ registered = CallbackKinds

\* No recovery is in progress: no reconnect was delivered yet, or the callback
\* has run to its return.
NoRecoveryInProgress ==
  pc["cb"] = "creturn" \/ (pc["cb"] = "idle" /\ reconnects = 0)

\* C19: in every state in which the data stream is grabbing and no recovery
\* is in progress, all announced buffers have one size, the size of the last
\* allocation, and there are NumBuffersAnnouncedMinRequired() of them - also
\* when a recovery interleaves with alloc_buffers on the main thread.
C19_PoolUniformWhileGrabbing ==
  (grabbing /\ NoRecoveryInProgress) =>
    /\ announced # <<>>
    /\ Sizes(announced) = {announced[Len(announced)].size}
    /\ Len(announced) = MinRequiredBuffers

\* The SDK calls of a recovery with a payload-size mismatch, in the order of
\* lines 73-95, for the pool and the stream it found.
RecoverySteps ==
  <<"PayloadSize.Value", "AnnouncedBuffers", "IsGrabbing">>
  \o (IF entry.grabbing THEN <<"StopAcquisition">> ELSE <<>>)
  \o <<"Flush", "AnnouncedBuffers">>
  \o [j \in 1..Len(entry.announced) |-> "RevokeBuffer"]
  \o <<"PayloadSize.Value", "NumBuffersAnnouncedMinRequired">>
  \o [j \in 1..(2 * MinRequiredBuffers) |->
        IF j % 2 = 1 THEN "AllocAndAnnounceBuffer" ELSE "QueueBuffer"]
  \o (IF entry.grabbing THEN <<"StartAcquisition">> ELSE <<>>)
  \o (IF info.remoteRunning THEN <<>> ELSE <<"AcquisitionStart.Execute">>)

C21_EachStepLaunchedOnce ==
  LET enabled ==
        (IF process_dict["record"] /\ process_dict["record_svo"]
           THEN <<"record">> ELSE <<>>)
        \o (IF process_dict["export"] THEN <<"export">> ELSE <<>>)
        \o (IF process_dict["pose_post"] THEN <<"pose_post">> ELSE <<>>)
        \o (IF process_dict["mesh_post"] THEN <<"mesh_post">> ELSE <<>>)
  IN /\ IsPrefix(launched, enabled)
     /\ Len(launched) <= 4
     /\ orch_pc = "odone" => launched = enabled

\* C22: in the Running state no buffer leaves circulation: whenever the main
\* thread is at the top of the loop or waits for the next buffer, and no
\* reconnect has touched the pool, every announced buffer is queued or
\* filled, each once - also after an iteration that caught an exception.
C22_NoBufferLeavesCirculation ==
  (pc["main"] \in {"m188", "m191"} /\ acquisition_running /\ reconnects = 0)
    => /\ Range(queued) \cup Range(finished) = Ids(announced)
       /\ Len(queued) + Len(finished) = Len(announced)

\* C23: once open_device has set self.device, exactly one device is open:
\* the first device of Devices() that is openable, and self.device is that
\* device.
C23_OpensFirstOpenableOnly ==
  (device # 0 /\ pc["main"] # "done") =>
    /\ opened = {device}
    /\ devices[device]
    /\ \A j \in 1..(device - 1) : ~devices[j]

\* The labels of the main thread from alloc_buffers (line 320) to the end of
\* run_acquisition_loop (line 209).
AllocAndLoopPcs ==
  {"a269", "a272", "a277", "a279", "m179", "m181", "m182", "m183", "m185",
   "m188", "m191", "m195", "m197", "m200", "m203", "m204", "m205", "m209"}

\* C24: whenever run() is in alloc_buffers or in run_acquisition_loop the
\* ReconnectEnable node exists and is true; if the node is missing, or is
\* neither writable nor true, no buffer is ever allocated, run() never gets
\* past enable_reconnect, and when run() has ended the callbacks are
\* unregistered and the library is closed.
C24_LoopOnlyWithReconnectEnabled ==
  /\ pc["main"] \in AllocAndLoopPcs => (reconnectNode.has /\ reconnectNode.value)
  /\ (~reconnectNode.has \/ (reconnectNode.access # "RW" /\ ~reconnectNode.value))
       => /\ announced = <<>> /\ nextId = 1
          /\ pc["main"] \notin AllocAndLoopPcs \cup {"m253", "m256", "m258", "m311"}
          /\ pc["main"] = "done" => (registered = {} /\ libClose = 1)

\* run() has ended by SystemExit on a read-only ReconnectEnable node that is
\* false: a device was opened, no buffer was allocated, the cleanup has run.
C24_Witness ==
  /\ pc["main"] = "done"
  /\ reconnectNode.has /\ reconnectNode.access = "RO" /\ ~reconnectNode.value
  /\ device # 0
  /\ retval = "SystemExit"
  /\ announced = <<>>
  /\ registered = {} /\ libClose = 1

\* C25: the loop of lines 113-176 terminates whatever the grab calls return:
\* once position_post.py has entered it, the script gets to the CSV write of
\* line 177 and ends.
C25_PoseLoopTerminates ==
  (pose_pc = "p113") ~> (pose_pc = "exited" /\ pose_csv # <<>>)

C27_RequeuedBufferIsAnnounced ==
  (pc["main"] = "m195" /\ (entry.called => entry.acquisition_running))
    => buffer["main"] \in Ids(announced)

\* C28: once run_acquisition_loop has stopped the data stream and returned,
\* the stream is not grabbing again: the revoke_buffers of line 326 runs on
\* a stopped stream, also when a recovery that saw the stream grabbing is
\* still in progress.
C28_StoppedStreamStaysStopped ==
  pc["main"] \in {"r283", "r285", "r287"} => ~grabbing

====
